---- MODULE Spec2Model ----
(***************************************************************************)
(* Kids Library Checkout App: the catalog store (books), the circulation   *)
(* ledger (checkouts), the user directory (users) and the availability and *)
(* recommendation queries of main.js, with the renderer's suggestion view. *)
(*                                                                         *)
(* Text values (titles, authors, descriptions) are sequences of one-       *)
(* character strings so that LOWER and LIKE are computed, not assumed.     *)
(* Timestamps are whole seconds, as CURRENT_TIMESTAMP yields them.         *)
(* The columns books.id and books.created_at are not modelled: isbn is     *)
(* UNIQUE, so GROUP BY b.id groups by isbn, and no query reads created_at. *)
(***************************************************************************)
EXTENDS Integers, Sequences, FiniteSets, TLC

\* ------------------------------------------------------------------ bounds
MaxTime == 1
MaxCheckoutId == 2
MaxUserId == 2
MaxItems == 1
MaxLookupFailures == 1
MaxSessions == 2
MaxReadingTime == 60
ReadingTick == 20

\* ------------------------------------------------------- program constants
SuggestionLimit == 10
DefaultCopiesTotal == 1
LoanPeriod == 604800
AuthorBonus == 30
TopicBonus == 15
AvailableBonus == 10
PASSWORD_MIN_LENGTH == 6

NoISBN == "No ISBN"
NULL == "null"
EmptyText == << >>

\* ------------------------------------------------------------ text helpers
Chars == {"a", "A", "b", "B", "c", "d", "D", "e", "n", "m", "R", "k", "x", "%", "_"}

LowerChar(c) ==
    CASE c = "A" -> "a"
      [] c = "B" -> "b"
      [] c = "D" -> "d"
      [] c = "R" -> "r"
      [] OTHER -> c

LOWER(s) == [i \in 1..Len(s) |-> LowerChar(s[i])]

RECURSIVE LIKE(_, _)
\* str LIKE pat: % matches any run, _ any one character, letters match
\* case-insensitively.
LIKE(str, pat) ==
    IF pat = << >> THEN str = << >>
    ELSE IF Head(pat) = "%"
         THEN LIKE(str, Tail(pat)) \/ (str # << >> /\ LIKE(Tail(str), pat))
    ELSE IF Head(pat) = "_"
         THEN str # << >> /\ LIKE(Tail(str), Tail(pat))
    ELSE /\ str # << >>
         /\ LowerChar(Head(str)) = LowerChar(Head(pat))
         /\ LIKE(Tail(str), Tail(pat))

Max2(a, b) == IF a >= b THEN a ELSE b
Min2(a, b) == IF a <= b THEN a ELSE b

\* ------------------------------------------- the external metadata service
\* Volumes the Google Books lookup can return (search-books builds one book
\* record per item).  VX and VX2 are two observations of the same identifier.
VX  == [isbn |-> "x", title |-> <<"A", "b">>, author |-> <<"D">>, coverUrl |-> "cx",
        description |-> <<"n">>, categories |-> <<"k">>]
VX2 == [isbn |-> "x", title |-> <<"A", "B">>, author |-> <<"D">>, coverUrl |-> "cx2",
        description |-> <<"m">>, categories |-> << >>]
VY  == [isbn |-> "y", title |-> <<"c", "d">>, author |-> <<"d">>, coverUrl |-> "cy",
        description |-> << >>, categories |-> << >>]
VZ  == [isbn |-> "z", title |-> <<"c", "%">>, author |-> <<"R">>, coverUrl |-> "cz",
        description |-> <<"x", "a", "B", "x">>, categories |-> << >>]
VY2 == [isbn |-> "y", title |-> <<"c", "d">>, author |-> <<"d">>, coverUrl |-> "cy",
        description |-> <<"m">>, categories |-> <<"k">>]
VN  == [isbn |-> NoISBN, title |-> <<"b">>, author |-> <<"R">>, coverUrl |-> "",
        description |-> <<"n">>, categories |-> << >>]
\* A second volume without identifier: another book under the same sentinel.
VN2 == [isbn |-> NoISBN, title |-> <<"e">>, author |-> <<"D">>, coverUrl |-> "",
        description |-> <<"m">>, categories |-> << >>]

Volumes == {VX, VX2, VY, VY2, VZ, VN}

VARIABLES users, nextUserId, books, checkouts, nextCheckoutId, now, ledger, returned,
          currentUser, suggestionsView, lastRequest, lookupFailures, deleting,
          readingSessions, timer

\* The renderer's state: the logged-in user and the suggestions list on screen.
page == <<currentUser, suggestionsView, lastRequest>>

\* The reading timer: the reading_sessions table and the renderer's stopwatch.
reading == <<readingSessions, timer>>

vars == <<users, nextUserId, books, checkouts, nextCheckoutId, now, ledger, returned, page,
          lookupFailures, deleting, reading>>

\* users      : rows of the users table (id, userType)
\* books      : rows of the books table, at most one per isbn
\* checkouts  : rows of the checkouts table
\* now        : CURRENT_TIMESTAMP
\* ledger     : history, every loan row ever inserted (never read by the code)
\* returned   : history, ids of the loans a return-book call removed
\* currentUser     : renderer global, the logged-in user's record ({} = null)
\* suggestionsView : what the suggestions list shows (Unrendered until drawn)
\* lastRequest     : history, ids of the users who opened the suggestions section
\* lookupFailures  : history, number of searches whose metadata lookup failed
\* deleting        : ids of the delete-user requests between their role lookup
\*                   and their DELETE statement
\* readingSessions : rows of the reading_sessions table; a NULL column is {}
\* timer           : the renderer's reading-timer globals and browser timers
TypeOK ==
    /\ now \in Nat
    /\ nextUserId \in 1..(MaxUserId + 1)
    /\ nextCheckoutId \in 1..(MaxCheckoutId + 1)
    /\ \A u \in users : u.id \in 1..MaxUserId /\ u.userType \in {"student", "admin"}
    /\ \A b \in books : b.copies_total \in Nat /\ b.updated_at \in 0..MaxTime
    /\ \A c \in checkouts : c.id \in 1..MaxCheckoutId
    /\ checkouts \subseteq ledger
    /\ returned \subseteq 1..MaxCheckoutId
    /\ lookupFailures \in 0..MaxLookupFailures
    /\ deleting \subseteq 1..MaxUserId

\* ------------------------------------------------------------ catalog upsert
HasBook(bs, isbn) == \E b \in bs : b.isbn = isbn
BookOf(bs, isbn) == CHOOSE b \in bs : b.isbn = isbn

\* The parameter list upsertBookRecord binds: missing fields become defaults.
UnknownTitle == <<"x">>
UnknownAuthor == <<"x", "x">>
UpsertParams(book) ==
    [isbn |-> book.isbn,
     title |-> IF book.title = EmptyText THEN UnknownTitle ELSE book.title,
     author |-> IF book.author = EmptyText THEN UnknownAuthor ELSE book.author,
     cover_url |-> book.coverUrl,
     description |-> book.description,
     categories |-> book.categories]

\* INSERT ... ON CONFLICT(isbn) DO UPDATE, run at time t.
UpsertRowMutant(old, p, t) ==
    [old EXCEPT !.title = p.title, !.author = p.author, !.cover_url = p.cover_url,
                !.description = IF p.description # EmptyText THEN p.description ELSE @,
                !.categories = IF p.categories # EmptyText THEN p.categories ELSE @,
                !.copies_total = @ + 1,
                !.updated_at = t]

UpsertRow(old, p, t) ==
    [old EXCEPT !.title = p.title, !.author = p.author, !.cover_url = p.cover_url,
                !.description = IF p.description # EmptyText THEN p.description ELSE @,
                !.categories = IF p.categories # EmptyText THEN p.categories ELSE @,
                !.updated_at = t]

InsertRowTwoCopies(p, t) ==
    [isbn |-> p.isbn, title |-> p.title, author |-> p.author, cover_url |-> p.cover_url,
     description |-> p.description, categories |-> p.categories,
     copies_total |-> DefaultCopiesTotal + 1, updated_at |-> t]

InsertRow(p, t) ==
    [isbn |-> p.isbn, title |-> p.title, author |-> p.author, cover_url |-> p.cover_url,
     description |-> p.description, categories |-> p.categories,
     copies_total |-> DefaultCopiesTotal, updated_at |-> t]

\* A call without a record passes NoBook; a record without identifier has
\* isbn = NULL.
NoBook == [missing |-> TRUE]

upsertBookRecordNoSentinel(bs, book, t) ==
    IF book = NoBook \/ book.isbn = NULL THEN bs
    ELSE LET p == UpsertParams(book) IN
         IF HasBook(bs, p.isbn)
         THEN (bs \ {BookOf(bs, p.isbn)}) \cup {UpsertRow(BookOf(bs, p.isbn), p, t)}
         ELSE bs \cup {InsertRow(p, t)}

upsertBookRecord(bs, book, t) ==
    IF book = NoBook \/ book.isbn = NULL \/ book.isbn = NoISBN THEN bs
    ELSE LET p == UpsertParams(book) IN
         IF HasBook(bs, p.isbn)
         THEN (bs \ {BookOf(bs, p.isbn)}) \cup {UpsertRow(BookOf(bs, p.isbn), p, t)}
         ELSE bs \cup {InsertRow(p, t)}

\* ------------------------------------------------------------- search-books
NoDescription == <<"n">>
\* The book record search-books builds from one API item.
SearchRecord(v) ==
    [isbn |-> v.isbn, title |-> v.title, author |-> v.author, coverUrl |-> v.coverUrl,
     description |-> IF v.description = EmptyText THEN NoDescription ELSE v.description,
     categories |-> v.categories]

RECURSIVE UpsertAll(_, _, _)
UpsertAll(bs, items, t) ==
    IF items = << >> THEN bs
    ELSE UpsertAll(upsertBookRecord(bs, SearchRecord(Head(items)), t), Tail(items), t)

Responses(vols) == UNION {[1..n -> vols] : n \in 1..MaxItems}

SearchBooks(items) ==
    /\ books' = UpsertAll(books, items, now)
    /\ UNCHANGED <<users, nextUserId, checkouts, nextCheckoutId, now, ledger, returned, page,
                   lookupFailures, deleting, reading>>

\* The lookup of search-books can end without items: makeHttpsRequest rejects
\* (request error, timeout after 10 s, unparsable body) or the parsed body has
\* no items array.  The handler then returns [] before its upsert loop.
FailedLookups == {"error", "timeout", "parse", "noItems"}

\* The catalog a search leaves, and what it resolves with, when its lookup
\* ended as outcome.
SearchBooksStoreWiped(bs, outcome) == {}

SearchBooksStore(bs, outcome) == bs

SearchBooksResolved(outcome) == << >>

SearchBooksFailed(outcome) ==
    /\ lookupFailures < MaxLookupFailures
    /\ lookupFailures' = lookupFailures + 1
    /\ books' = SearchBooksStore(books, outcome)
    /\ UNCHANGED <<users, nextUserId, checkouts, nextCheckoutId, now, ledger, returned, page,
                   deleting, reading>>

\* ------------------------------------------------------------ checkout-book
\* The record checkout-book hands to upsertBookRecord: no description, no
\* categories.
CheckoutRecord(isbn, title, author, coverUrl) ==
    [isbn |-> isbn, title |-> title, author |-> author, coverUrl |-> coverUrl,
     description |-> EmptyText, categories |-> EmptyText]

CheckoutRowDueNow(id, userId, isbn, title, author, coverUrl, t) ==
    [id |-> id, user_id |-> userId, isbn |-> isbn, title |-> title, author |-> author,
     cover_url |-> coverUrl, checkout_date |-> t, due_date |-> t,
     returned |-> 0]

CheckoutRow(id, userId, isbn, title, author, coverUrl, t) ==
    [id |-> id, user_id |-> userId, isbn |-> isbn, title |-> title, author |-> author,
     cover_url |-> coverUrl, checkout_date |-> t, due_date |-> t + LoanPeriod,
     returned |-> 0]

\* What checkout-book resolves with once the INSERT has run: this.lastID is
\* the id of the new row.
CheckoutBookResult(id) == [success |-> TRUE, checkoutId |-> id]

CheckoutBookIfAvailable(userId, isbn, title, author, coverUrl) ==
    /\ nextCheckoutId <= MaxCheckoutId
    /\ \A b \in books : b.isbn = isbn =>
          b.copies_total > Cardinality({c \in checkouts : c.isbn = isbn})
    /\ LET row == CheckoutRow(nextCheckoutId, userId, isbn, title, author, coverUrl, now) IN
        /\ checkouts' = checkouts \cup {row}
        /\ ledger' = ledger \cup {row}
    /\ nextCheckoutId' = nextCheckoutId + 1
    /\ books' = upsertBookRecord(books, CheckoutRecord(isbn, title, author, coverUrl), now)
    /\ UNCHANGED <<users, nextUserId, now, returned, page, lookupFailures, deleting, reading>>

CheckoutBookNoUpsert(userId, isbn, title, author, coverUrl) ==
    /\ nextCheckoutId <= MaxCheckoutId
    /\ LET row == CheckoutRow(nextCheckoutId, userId, isbn, title, author, coverUrl, now) IN
        /\ checkouts' = checkouts \cup {row}
        /\ ledger' = ledger \cup {row}
    /\ nextCheckoutId' = nextCheckoutId + 1
    /\ UNCHANGED <<users, nextUserId, books, now, returned, page, lookupFailures, deleting, reading>>

CheckoutBook(userId, isbn, title, author, coverUrl) ==
    /\ nextCheckoutId <= MaxCheckoutId
    /\ LET row == CheckoutRow(nextCheckoutId, userId, isbn, title, author, coverUrl, now) IN
        /\ checkouts' = checkouts \cup {row}
        /\ ledger' = ledger \cup {row}
    /\ nextCheckoutId' = nextCheckoutId + 1
    /\ books' = upsertBookRecord(books, CheckoutRecord(isbn, title, author, coverUrl), now)
    /\ UNCHANGED <<users, nextUserId, now, returned, page, lookupFailures, deleting, reading>>

\* -------------------------------------------------------------- return-book
\* The handler destructures { checkoutId } from its payload: an object yields
\* its checkoutId, a bare number yields undefined, which binds as NULL and
\* equals no id.  PayloadCheckoutId is the set of ids "id = ?" can equal.
Payloads == [shape : {"object", "number"}, value : 1..MaxCheckoutId]
PayloadCheckoutId(payload) == IF payload.shape = "object" THEN {payload.value} ELSE {}

\* The rows DELETE FROM checkouts WHERE id = ? removes, and what the handler
\* resolves with: success iff this.changes === 1.
ReturnBookHit(payload) == {c \in checkouts : c.id \in PayloadCheckoutId(payload)}
ReturnBookResultAlwaysOk(payload) == [success |-> TRUE]

ReturnBookResult(payload) == [success |-> Cardinality(ReturnBookHit(payload)) = 1]

\* The payload the page sends: adminReturnBook(checkoutId) calls
\* electronAPI.returnBook(checkoutId), and preload invokes 'return-book' with
\* that argument as it is.
returnBook(checkoutId) == [shape |-> "number", value |-> checkoutId]

ReturnBook(payload) ==
    LET hit == ReturnBookHit(payload)
    IN  /\ checkouts' = checkouts \ hit
        /\ returned' = returned \cup {c.id : c \in hit}
        /\ UNCHANGED <<users, nextUserId, books, nextCheckoutId, now, ledger, page, lookupFailures, deleting,
                   reading>>

\* ------------------------------------------------------------ user directory
\* Passwords are texts; the stored value is the pbkdf2 hash of the password
\* (the random salt is left out: verifyPassword accepts exactly the password
\* that was hashed).
AdminPassword == <<"a", "d", "m", "i", "n", "1", "2", "3">>
StudentPassword == <<"k", "n", "n", "k", "n", "n">>
NewPasswords == {<<"m", "n", "m", "n", "m", "n">>, <<"a", "b", "c">>}
hashPassword(password) == <<"pbkdf2", password>>

RegisterUser(userType) ==
    /\ nextUserId <= MaxUserId
    /\ Len(StudentPassword) >= PASSWORD_MIN_LENGTH
    /\ users' = users \cup {[id |-> nextUserId, userType |-> userType,
                              password |-> hashPassword(StudentPassword)]}
    /\ nextUserId' = nextUserId + 1
    /\ UNCHANGED <<books, checkouts, nextCheckoutId, now, ledger, returned, page, lookupFailures, deleting,
                   reading>>

DeleteUser(userId) ==
    /\ \E u \in users : u.id = userId /\ u.userType # "admin"
    /\ users' = {u \in users : u.id # userId}
    /\ UNCHANGED <<nextUserId, books, checkouts, nextCheckoutId, now, ledger, returned, page,
                   lookupFailures, deleting, reading>>

\* delete-user runs two statements: db.get reads the row, its callback
\* decides, and only then is the DELETE handed to the store.  Statements of
\* other requests that reached the store in between run in between.
DeleteUserLookupResult(userId) ==
    IF ~(\E u \in users : u.id = userId) THEN [success |-> FALSE, error |-> "User not found"]
    ELSE IF \E u \in users : u.id = userId /\ u.userType = "admin"
         THEN [success |-> FALSE, error |-> "Cannot delete admin users"]
    ELSE [proceed |-> TRUE]

DeleteUserLookup(userId) ==
    /\ DeleteUserLookupResult(userId) = [proceed |-> TRUE]
    /\ userId \notin deleting
    /\ deleting' = deleting \cup {userId}
    /\ UNCHANGED <<users, nextUserId, books, checkouts, nextCheckoutId, now, ledger, returned,
                   page, lookupFailures, reading>>

\* DELETE FROM users WHERE id = ?
DeleteUserRun(userId) ==
    /\ userId \in deleting
    /\ deleting' = deleting \ {userId}
    /\ users' = {u \in users : u.id # userId}
    /\ UNCHANGED <<nextUserId, books, checkouts, nextCheckoutId, now, ledger, returned,
                   page, lookupFailures, reading>>

\* change-user-type: UPDATE users SET userType = ? WHERE id = ?; without a
\* row of that id nothing changes ('User not found').
ChangeUserType(userId, newType) ==
    /\ users' = {IF u.id = userId THEN [u EXCEPT !.userType = newType] ELSE u : u \in users}
    /\ UNCHANGED <<nextUserId, books, checkouts, nextCheckoutId, now, ledger, returned, page,
                   lookupFailures, deleting, reading>>

\* change-user-password: a password shorter than PASSWORD_MIN_LENGTH is
\* refused, otherwise UPDATE users SET password = ? WHERE id = ?.
ChangeUserPassword(userId, newPassword) ==
    /\ users' = IF Len(newPassword) < PASSWORD_MIN_LENGTH THEN users
                ELSE {IF u.id = userId THEN [u EXCEPT !.password = hashPassword(newPassword)]
                      ELSE u : u \in users}
    /\ UNCHANGED <<nextUserId, books, checkouts, nextCheckoutId, now, ledger, returned, page,
                   lookupFailures, deleting, reading>>

Tick ==
    /\ now < MaxTime
    /\ now' = now + 1
    /\ UNCHANGED <<users, nextUserId, books, checkouts, nextCheckoutId, ledger, returned, page,
                   lookupFailures, deleting, reading>>

\* ------------------------------------------------------ availability query
\* SELECT isbn, COUNT(*) ... FROM checkouts GROUP BY isbn, joined on isbn;
\* COALESCE(..., 0) covers a title without rows.
ActiveCountHistorical(isbn) == Cardinality({c \in ledger : c.isbn = isbn})

ActiveCount(isbn) == Cardinality({c \in checkouts : c.isbn = isbn})

CheckoutCount(isbn) == Cardinality({c \in checkouts : c.isbn = isbn})

\* MAX(b.copies_total - COALESCE(active_count, 0), 0)
AvailableCopiesUnclamped(b) == b.copies_total - ActiveCount(b.isbn)

AvailableCopies(b) == Max2(b.copies_total - ActiveCount(b.isbn), 0)

\* ORDER BY k1 DESC, k2 DESC over the titles in S; rows equal in both keys
\* come out in the engine's order, here the rank tie gives them.
RECURSIVE OrderByDesc(_, _, _, _)
OrderByDesc(S, k1, k2, tie) ==
    IF S = {} THEN << >>
    ELSE LET first == CHOOSE a \in S : \A b \in S \ {a} :
                          \/ k1[a] > k1[b]
                          \/ k1[a] = k1[b] /\ k2[a] > k2[b]
                          \/ k1[a] = k1[b] /\ k2[a] = k2[b] /\ tie[a] < tie[b]
         IN  <<first>> \o OrderByDesc(S \ {first}, k1, k2, tie)

LimitUnbounded(rows) == rows

Limit(rows) == SubSeq(rows, 1, Min2(Len(rows), SuggestionLimit))

Isbns(bs) == {b.isbn : b \in bs}

LibraryRow(b) ==
    [isbn |-> b.isbn, title |-> b.title, author |-> b.author, coverUrl |-> b.cover_url,
     description |-> b.description, categories |-> b.categories,
     copiesTotal |-> b.copies_total, availableCopies |-> AvailableCopies(b)]

\* get-library-books: every title, ORDER BY updated_at DESC.
GetLibraryBooks(tie) ==
    LET order == OrderByDesc(Isbns(books),
                             [i \in Isbns(books) |-> BookOf(books, i).updated_at],
                             [i \in Isbns(books) |-> 0], tie)
    IN  [n \in 1..Len(order) |-> LibraryRow(BookOf(books, order[n]))]

\* ------------------------------------------------------- loan list queries
\* get-user-checkouts: the user's rows whose id is the MAX(id) of one of the
\* user's isbn groups, ORDER BY checkout_date DESC; tie ranks the ids of rows
\* that share a checkout_date.
UserCheckoutRow(c) ==
    [isbn |-> c.isbn, title |-> c.title, author |-> c.author, cover_url |-> c.cover_url,
     checkout_date |-> c.checkout_date, due_date |-> c.due_date, returned |-> c.returned]

MaxIdPerIsbn(userId) ==
    {c.id : c \in {r \in checkouts :
                      /\ r.user_id = userId
                      /\ \A d \in checkouts :
                            (d.user_id = userId /\ d.isbn = r.isbn) => d.id <= r.id}}

GetUserCheckouts(userId, tie) ==
    LET ids == {c.id : c \in {r \in checkouts : r.user_id = userId /\ r.id \in MaxIdPerIsbn(userId)}}
        rowOf == [i \in ids |-> CHOOSE c \in checkouts : c.id = i]
        order == OrderByDesc(ids, [i \in ids |-> rowOf[i].checkout_date], [i \in ids |-> 0], tie)
    IN  [n \in 1..Len(order) |-> UserCheckoutRow(rowOf[order[n]])]

\* get-all-checkouts: SELECT c.*, u.username FROM checkouts c JOIN users u ON
\* c.user_id = u.id, filtered by the trimmed search text when there is one,
\* ORDER BY c.checkout_date DESC.  The default admin is named admin; the
\* students registered here are named s.
Username(userId) == IF userId = 1 THEN <<"a", "d", "m", "i", "n">> ELSE <<"s">>

AllCheckoutRow(c) ==
    [id |-> c.id, user_id |-> c.user_id, isbn |-> c.isbn, title |-> c.title,
     author |-> c.author, cover_url |-> c.cover_url, checkout_date |-> c.checkout_date,
     due_date |-> c.due_date, returned |-> c.returned, username |-> Username(c.user_id)]

SearchTerm(searchQuery) == <<"%">> \o searchQuery \o <<"%">>

GetAllCheckouts(searchQuery, tie) ==
    LET joined == {c \in checkouts : \E u \in users : u.id = c.user_id}
        hits == IF searchQuery = EmptyText THEN joined
                ELSE {c \in joined :
                         \/ LIKE(Username(c.user_id), SearchTerm(searchQuery))
                         \/ LIKE(c.title, SearchTerm(searchQuery))
                         \/ LIKE(c.author, SearchTerm(searchQuery))}
        ids == {c.id : c \in hits}
        rowOf == [i \in ids |-> CHOOSE c \in checkouts : c.id = i]
        order == OrderByDesc(ids, [i \in ids |-> rowOf[i].checkout_date], [i \in ids |-> 0], tie)
    IN  [n \in 1..Len(order) |-> AllCheckoutRow(rowOf[order[n]])]

\* ---------------------------------------------------- recommendation query
\* user_history: SELECT DISTINCT isbn, title, author FROM checkouts WHERE user_id = ?
UserHistory(userId) ==
    {[isbn |-> c.isbn, title |-> c.title, author |-> c.author] :
        c \in {r \in checkouts : r.user_id = userId}}

AuthorMatch(b, userId) ==
    \E uh \in UserHistory(userId) : LOWER(uh.author) = LOWER(b.author)

TopicPattern(uh) == <<"%">> \o LOWER(uh.title) \o <<"%">>

TopicMatch(b, userId) ==
    \E uh \in UserHistory(userId) :
        /\ uh.title # b.title
        /\ \/ LIKE(LOWER(b.title), TopicPattern(uh))
           \/ LIKE(LOWER(b.description), TopicPattern(uh))

OverlapBonus(b, userId) ==
    IF AuthorMatch(b, userId) THEN AuthorBonus
    ELSE IF TopicMatch(b, userId) THEN TopicBonus
    ELSE 0

Score(b, userId) ==
    OverlapBonus(b, userId)
    + (IF AvailableCopies(b) > 0 THEN AvailableBonus ELSE 0)
    + CheckoutCount(b.isbn)

SuggestionRow(b, userId) ==
    [isbn |-> b.isbn, title |-> b.title, author |-> b.author, coverUrl |-> b.cover_url,
     description |-> b.description, categories |-> b.categories,
     checkoutCount |-> CheckoutCount(b.isbn), availableCopies |-> AvailableCopies(b),
     score |-> Score(b, userId)]

\* WHERE b.isbn NOT IN (SELECT isbn FROM user_history)
Candidates(userId) ==
    {b.isbn : b \in {r \in books : r.isbn \notin {uh.isbn : uh \in UserHistory(userId)}}}

\* suggestionsSql: ORDER BY score DESC, b.updated_at DESC LIMIT 10
Suggestions(userId, tie) ==
    LET cand == Candidates(userId)
        order == OrderByDesc(cand,
                             [i \in cand |-> Score(BookOf(books, i), userId)],
                             [i \in cand |-> BookOf(books, i).updated_at], tie)
    IN  Limit([n \in 1..Len(order) |-> SuggestionRow(BookOf(books, order[n]), userId)])

PopularRow(b) ==
    [isbn |-> b.isbn, title |-> b.title, author |-> b.author, coverUrl |-> b.cover_url,
     description |-> b.description,
     checkoutCount |-> CheckoutCount(b.isbn), availableCopies |-> AvailableCopies(b)]

\* popular query: ORDER BY checkoutCount DESC, b.updated_at DESC LIMIT 10
Popular(tie) ==
    LET order == OrderByDesc(Isbns(books),
                             [i \in Isbns(books) |-> CheckoutCount(i)],
                             [i \in Isbns(books) |-> BookOf(books, i).updated_at], tie)
    IN  Limit([n \in 1..Len(order) |-> PopularRow(BookOf(books, order[n]))])

\* get-user-book-suggestions resolves { suggestions, popular }.
GetUserBookSuggestions(userId, tie) ==
    [suggestions |-> Suggestions(userId, tie), popular |-> Popular(tie)]

\* What the two read handlers resolve with, given whether db.all reported an
\* error (err, popularErr) for their statements.
GetLibraryBooksResolved(tie, err) ==
    IF err THEN << >> ELSE GetLibraryBooks(tie)

GetUserBookSuggestionsResolved(userId, tie, err, popularErr) ==
    IF err THEN [suggestions |-> << >>, popular |-> << >>]
    ELSE IF popularErr THEN [suggestions |-> Suggestions(userId, tie), popular |-> << >>]
    ELSE GetUserBookSuggestions(userId, tie)

\* ---------------------------------------------------------- reading sessions
\* The renderer's reading-timer state before any session: the globals
\* activeReadingSession, readingStartTime, readingInterval, pausedAt are null
\* ({}), isPaused is false; no browser interval is live.
TimerInit ==
    [activeReadingSession |-> {}, readingStartTime |-> {}, readingInterval |-> {},
     isPaused |-> FALSE, pausedAt |-> {},
     intervals |-> {}, starting |-> {}, stopping |-> 0,
     shown |-> {},
     started |-> {}, pausedTotal |-> 0]

BookTitle == <<"b">>

\* INSERT INTO reading_sessions (user_id, book_title): start_time defaults to
\* CURRENT_TIMESTAMP, the other columns to NULL.
SessionRow(id, userId, bookTitle, t) ==
    [id |-> id, user_id |-> userId, book_title |-> bookTitle, start_time |-> t,
     end_time |-> {}, duration_minutes |-> {}, pages_read |-> {}]

NextSessionId == Cardinality(readingSessions) + 1

StartReadingSession(userId, bookTitle) ==
    /\ NextSessionId <= MaxSessions
    /\ readingSessions' = readingSessions
                            \cup {SessionRow(NextSessionId, userId, bookTitle, now)}
    /\ UNCHANGED <<users, nextUserId, books, checkouts, nextCheckoutId, now, ledger, returned,
                   page, lookupFailures, deleting, timer>>

\* ROUND(x) of a number of seconds expressed in minutes: to the nearest whole
\* minute.
RoundMinutes(seconds) == (seconds + 30) \div 60

\* UPDATE reading_sessions SET end_time, duration_minutes, pages_read
\* WHERE id = ? AND end_time IS NULL, run at time t.
EndReadingSessionStoreAnyRow(ss, sessionId, pagesRead, t) ==
    {IF s.id = sessionId
     THEN [s EXCEPT !.end_time = {t},
                    !.duration_minutes = {RoundMinutes(t - s.start_time)},
                    !.pages_read = {pagesRead}]
     ELSE s : s \in ss}

EndReadingSessionStore(ss, sessionId, pagesRead, t) ==
    {IF s.id = sessionId /\ s.end_time = {}
     THEN [s EXCEPT !.end_time = {t},
                    !.duration_minutes = {RoundMinutes(t - s.start_time)},
                    !.pages_read = {pagesRead}]
     ELSE s : s \in ss}

\* this.changes === 0 -> 'Session not found or already ended'
EndReadingSessionResult(ss, sessionId) ==
    IF \E s \in ss : s.id = sessionId /\ s.end_time = {}
    THEN [success |-> TRUE]
    ELSE [success |-> FALSE, error |-> "Session not found or already ended"]

EndReadingSession(sessionId, pagesRead) ==
    /\ readingSessions' = EndReadingSessionStore(readingSessions, sessionId, pagesRead, now)
    /\ UNCHANGED <<users, nextUserId, books, checkouts, nextCheckoutId, now, ledger, returned,
                   page, lookupFailures, deleting, timer>>

\* The clock of the reading timer, in steps of ReadingTick seconds.
TickReading ==
    /\ now < MaxReadingTime
    /\ now' = now + ReadingTick
    /\ UNCHANGED <<users, nextUserId, books, checkouts, nextCheckoutId, ledger, returned,
                   page, lookupFailures, deleting, reading>>

\* ----------------------------------------------------------------- renderer
Unrendered == <<[unrendered |-> TRUE]>>

\* login(): login-user found the row and verified the password; the renderer
\* keeps result.user.
Login(userId) ==
    /\ currentUser' = {[id |-> u.id, userType |-> u.userType] : u \in {r \in users : r.id = userId}}
    /\ currentUser' # {}
    /\ UNCHANGED <<users, nextUserId, books, checkouts, nextCheckoutId, now, ledger,
                   returned, suggestionsView, lastRequest, lookupFailures, deleting, reading>>

Logout ==
    /\ currentUser # {}
    /\ currentUser' = {}
    /\ UNCHANGED <<users, nextUserId, books, checkouts, nextCheckoutId, now, ledger,
                   returned, suggestionsView, lastRequest, lookupFailures, deleting, reading>>

\* The page invokes showSuggestionsSection.  In renderer.js the comment opened
\* by the slash-star-star of line 713 is closed only by line 818, so the
\* declaration on lines 736-756 is comment text: the name is unbound, the
\* invocation throws ReferenceError, get-user-book-suggestions is never
\* invoked and the list keeps its content.
ShowSuggestionsSection ==
    /\ currentUser # {}
    /\ lastRequest' = lastRequest \cup {u.id : u \in currentUser}
    /\ lastRequest' # lastRequest
    /\ suggestionsView' = suggestionsView
    /\ UNCHANGED <<users, nextUserId, books, checkouts, nextCheckoutId, now, ledger,
                   returned, currentUser, lookupFailures, deleting, reading>>

\* -------------------------------------------------------------- reading timer
\* Fields of timer: the globals activeReadingSession, readingStartTime,
\* readingInterval, isPaused, pausedAt (null is {}); intervals, the handles
\* setInterval has issued and clearInterval has not cleared; starting, the
\* session ids the backend has answered to startReadingTimer calls still at
\* their await; stopping, the stopReadingTimer calls still at their await;
\* shown, the elapsed seconds last written to the page; started and
\* pausedTotal, the wall time at which the stopwatch was started and the total
\* length of the pauses resumed since.
MaxStopping == 1

\* setInterval answers a handle that no live interval and no global holds.
FreshHandle ==
    CHOOSE h \in 1..(MaxSessions + 2) :
        /\ h \notin timer.intervals \cup timer.readingInterval
        /\ \A g \in 1..(h - 1) : g \in timer.intervals \cup timer.readingInterval

\* Date.now() - pausedAt
PauseLength == CHOOSE d \in {now - p : p \in timer.pausedAt} : TRUE

\* startReadingTimer up to its await: the backend inserts the session.
StartReadingTimer ==
    /\ currentUser # {}
    /\ NextSessionId <= MaxSessions
    /\ \E u \in currentUser :
          readingSessions' = readingSessions
                                \cup {SessionRow(NextSessionId, u.id, BookTitle, now)}
    /\ timer' = [timer EXCEPT !.starting = @ \cup {NextSessionId}]
    /\ UNCHANGED <<users, nextUserId, books, checkouts, nextCheckoutId, now, ledger, returned,
                   page, lookupFailures, deleting>>

\* startReadingTimer after its await, result.success.
StartReadingResolved(sessionId) ==
    /\ sessionId \in timer.starting
    /\ timer' = [timer EXCEPT !.starting = @ \ {sessionId},
                              !.activeReadingSession = {sessionId},
                              !.readingStartTime = {now},
                              !.readingInterval = {FreshHandle},
                              !.intervals = @ \cup {FreshHandle},
                              !.started = {now},
                              !.pausedTotal = 0]
    /\ UNCHANGED <<users, nextUserId, books, checkouts, nextCheckoutId, now, ledger, returned,
                   page, lookupFailures, deleting, readingSessions>>

\* The interval callback.
UpdateStopwatch ==
    /\ timer.intervals # {}
    /\ timer' = [timer EXCEPT !.shown = {now - t : t \in timer.readingStartTime}]
    /\ UNCHANGED <<users, nextUserId, books, checkouts, nextCheckoutId, now, ledger, returned,
                   page, lookupFailures, deleting, readingSessions>>

PauseReadingTimer ==
    /\ timer.readingInterval # {}
    /\ timer' = [timer EXCEPT !.intervals = @ \ timer.readingInterval,
                              !.readingInterval = {},
                              !.isPaused = TRUE,
                              !.pausedAt = {now}]
    /\ UNCHANGED <<users, nextUserId, books, checkouts, nextCheckoutId, now, ledger, returned,
                   page, lookupFailures, deleting, readingSessions>>

ResumeReadingTimer ==
    /\ timer.isPaused
    /\ timer' = [timer EXCEPT
                    !.readingStartTime = {t + (now - p) : t \in @, p \in timer.pausedAt},
                    !.readingInterval = {FreshHandle},
                    !.intervals = @ \cup {FreshHandle},
                    !.isPaused = FALSE,
                    !.pausedAt = {},
                    !.pausedTotal = @ + PauseLength]
    /\ UNCHANGED <<users, nextUserId, books, checkouts, nextCheckoutId, now, ledger, returned,
                   page, lookupFailures, deleting, readingSessions>>

\* stopReadingTimer up to its await: the interval is cleared and the backend
\* ends the session.
StopReadingTimer(pagesRead) ==
    /\ timer.activeReadingSession # {}
    /\ timer.stopping < MaxStopping
    /\ \E sid \in timer.activeReadingSession :
          readingSessions' = EndReadingSessionStore(readingSessions, sid, pagesRead, now)
    /\ timer' = [timer EXCEPT !.intervals = @ \ timer.readingInterval,
                              !.stopping = @ + 1]
    /\ UNCHANGED <<users, nextUserId, books, checkouts, nextCheckoutId, now, ledger, returned,
                   page, lookupFailures, deleting>>

\* stopReadingTimer after its await, whatever the result.
StopReadingResolved ==
    /\ timer.stopping > 0
    /\ timer' = [timer EXCEPT !.stopping = @ - 1,
                              !.activeReadingSession = {},
                              !.isPaused = FALSE,
                              !.pausedAt = {}]
    /\ UNCHANGED <<users, nextUserId, books, checkouts, nextCheckoutId, now, ledger, returned,
                   page, lookupFailures, deleting, readingSessions>>

\* ------------------------------------------------------------ specification
Init ==
    /\ users = {[id |-> 1, userType |-> "admin", password |-> hashPassword(AdminPassword)]}
    /\ nextUserId = 2
    /\ books = {}
    /\ checkouts = {}
    /\ nextCheckoutId = 1
    /\ now = 0
    /\ ledger = {}
    /\ returned = {}
    /\ currentUser = {}
    /\ suggestionsView = Unrendered
    /\ lastRequest = {}
    /\ lookupFailures = 0
    /\ deleting = {}
    /\ readingSessions = {}
    /\ timer = TimerInit

KnownUserIds == 1..(nextUserId - 1)

\* The volumes the circulation specification observes.
ShelfOfThree == {VX, VY, VZ}

Next ==
    \/ \E items \in Responses(ShelfOfThree) : SearchBooks(items)
    \/ \E u \in KnownUserIds, v \in ShelfOfThree :
          CheckoutBook(u, v.isbn, v.title, v.author, v.coverUrl)
    \/ \E payload \in Payloads : ReturnBook(payload)
    \/ RegisterUser("student")
    \/ \E u \in 1..MaxUserId : DeleteUser(u)
    \/ Tick

Spec == Init /\ [][Next]_vars

\* The catalog under every observation the lookup can return, searches and
\* checkouts alike.
NextCatalog ==
    \/ \E items \in Responses(Volumes) : SearchBooks(items)
    \/ \E outcome \in FailedLookups : SearchBooksFailed(outcome)
    \/ \E v \in Volumes : CheckoutBook(1, v.isbn, v.title, v.author, v.coverUrl)
    \/ Tick

SpecCatalog == Init /\ [][NextCatalog]_vars

\* The page in front of the store: a user logs in, borrows and opens the
\* suggestions section.
NextView ==
    \/ \E items \in Responses(ShelfOfThree) : SearchBooks(items)
    \/ \E u \in currentUser, v \in ShelfOfThree :
          CheckoutBook(u.id, v.isbn, v.title, v.author, v.coverUrl)
    \/ RegisterUser("student")
    \/ \E u \in 1..MaxUserId : Login(u)
    \/ Logout
    \/ ShowSuggestionsSection

SpecView == Init /\ [][NextView]_vars

\* The admin management handlers as the page reaches them: the session is
\* whoever is logged in, or nobody.  Neither the handlers (main.js) nor the
\* page functions that invoke them (changeUserType, saveUserPassword,
\* deleteUser, adminReturnBook) nor the preload bridge read the session.
UserTypes == {"student", "admin"}

NextAdmin ==
    \/ RegisterUser("student")
    \/ \E u \in 1..MaxUserId : Login(u)
    \/ Logout
    \/ \E u \in currentUser, v \in {VX, VY} :
          CheckoutBook(u.id, v.isbn, v.title, v.author, v.coverUrl)
    \/ \E u \in 1..MaxUserId, t \in UserTypes : ChangeUserType(u, t)
    \/ \E u \in 1..MaxUserId, pw \in NewPasswords : ChangeUserPassword(u, pw)
    \/ \E u \in 1..MaxUserId : DeleteUserLookup(u)
    \/ \E u \in 1..MaxUserId : DeleteUserRun(u)
    \/ \E payload \in Payloads : ReturnBook(payload)

SpecAdmin == Init /\ [][NextAdmin]_vars

\* The reading-session handlers as any caller reaches them.
PagesRead == {0, 3}

NextSessions ==
    \/ RegisterUser("student")
    \/ \E u \in KnownUserIds : StartReadingSession(u, BookTitle)
    \/ \E sid \in 1..(MaxSessions + 1), pg \in PagesRead : EndReadingSession(sid, pg)
    \/ TickReading

SpecSessions == Init /\ [][NextSessions]_vars

\* The reading timer as the page drives it.
NextReading ==
    \/ Login(1)
    \/ StartReadingTimer
    \/ \E sid \in 1..MaxSessions : StartReadingResolved(sid)
    \/ UpdateStopwatch
    \/ PauseReadingTimer
    \/ ResumeReadingTimer
    \/ \E pg \in PagesRead : StopReadingTimer(pg)
    \/ StopReadingResolved
    \/ TickReading

SpecReading == Init /\ [][NextReading]_vars

\* Loans of several users, among them loans of volumes without identifier.
LoanVolumes == {VX, VN, VN2}

NextLoans ==
    \/ RegisterUser("student")
    \/ \E u \in KnownUserIds, v \in LoanVolumes :
          CheckoutBook(u, v.isbn, v.title, v.author, v.coverUrl)
    \/ \E payload \in Payloads : ReturnBook(payload)
    \/ \E u \in 1..MaxUserId : DeleteUser(u)
    \/ Tick

SpecLoans == Init /\ [][NextLoans]_vars

\* A catalog one title larger than the LIMIT of the recommendation queries:
\* one search response of ShelfSize items (the lookup asks for up to 15).
ShelfSize == SuggestionLimit + 1
ShelfISBNs == <<"s01", "s02", "s03", "s04", "s05", "s06", "s07", "s08", "s09", "s10", "s11">>
ShelfVolume(n) ==
    [isbn |-> ShelfISBNs[n], title |-> <<"e">>,
     author |-> IF n % 2 = 1 THEN <<"D">> ELSE <<"R">>, coverUrl |-> "",
     description |-> <<"n">>, categories |-> << >>]
ShelfResponse == [n \in 1..ShelfSize |-> ShelfVolume(n)]
ShelfPicks == 1..(MaxCheckoutId + 1)

NextShelf ==
    \/ SearchBooks(ShelfResponse)
    \/ \E n \in ShelfPicks : SearchBooks(<<ShelfVolume(n)>>)
    \/ \E u \in KnownUserIds, n \in ShelfPicks :
          CheckoutBook(u, ShelfVolume(n).isbn, ShelfVolume(n).title,
                       ShelfVolume(n).author, ShelfVolume(n).coverUrl)
    \/ \E payload \in Payloads : ReturnBook(payload)
    \/ Tick

SpecShelf == Init /\ [][NextShelf]_vars

\* =================================================================== claims
CatalogISBNs == {v.isbn : v \in Volumes} \ {NoISBN}

\* Every order in which the engine may emit rows that tie on the ORDER BY keys.
TieOrders ==
    {f \in [CatalogISBNs -> 1..Cardinality(CatalogISBNs)] :
        \A a, b \in CatalogISBNs : a # b => f[a] # f[b]}

\* User ids a caller may ask about: every id the directory can hold and one
\* it never holds.
AskIds == 1..(MaxUserId + 1)

Range(seq) == {seq[n] : n \in 1..Len(seq)}

\* Loans of a title that were checked out and have not been returned.
Outstanding(isbn) == {r \in ledger : r.isbn = isbn /\ r.id \notin returned}

\* Titles user u has ever borrowed.
EverBorrowed(u) == {r.isbn : r \in {l \in ledger : l.user_id = u}}

\* Total historical checkout count of a title.
HistoricalCheckouts(isbn) == Cardinality({r \in ledger : r.isbn = isbn})

\* C1: the available-copy count reported for every catalog title, by
\* get-library-books and by get-user-book-suggestions, lies in
\* [0, copies_total].
C1_AvailableWithinTotal ==
    \A tie \in TieOrders :
        /\ \A row \in Range(GetLibraryBooks(tie)) :
              row.availableCopies >= 0 /\ row.availableCopies <= row.copiesTotal
        /\ \A u \in AskIds :
              \A row \in Range(Suggestions(u, tie)) \cup Range(Popular(tie)) :
                  /\ row.availableCopies >= 0
                  /\ row.availableCopies <= BookOf(books, row.isbn).copies_total

\* C1 witness: a title is over-booked (more active loans than copies) after a
\* user holding a loan was deleted, and get-library-books reports it.
C1_Witness ==
    \E b \in books :
        /\ ActiveCount(b.isbn) > b.copies_total
        /\ \E c \in checkouts : c.isbn = b.isbn /\ ~(\E u \in users : u.id = c.user_id)
        /\ \E tie \in TieOrders : \E row \in Range(GetLibraryBooks(tie)) :
              row.isbn = b.isbn /\ row.availableCopies = 0

\* C2: the reported availableCopies equals max(copies_total - N, 0), N the
\* number of loans of the title checked out and not yet returned; in
\* particular it equals copies_total when no loan is outstanding.
C2_AvailableIsTotalMinusOutstanding ==
    \A tie \in TieOrders :
        \A row \in Range(GetLibraryBooks(tie)) :
            /\ row.availableCopies =
                  Max2(row.copiesTotal - Cardinality(Outstanding(row.isbn)), 0)
            /\ Outstanding(row.isbn) = {} => row.availableCopies = row.copiesTotal

\* C2 witness: one title has an outstanding loan, another had its only loan
\* returned, and both are listed.
C2_Witness ==
    \E a, b \in books :
        /\ Outstanding(a.isbn) # {}
        /\ Outstanding(b.isbn) = {}
        /\ \E r \in ledger : r.isbn = b.isbn /\ r.id \in returned
        /\ {a.isbn, b.isbn} \subseteq {row.isbn : row \in Range(GetLibraryBooks(CHOOSE t \in TieOrders : TRUE))}

\* C3: the personalized list for user U never contains a title U has ever
\* borrowed, whether or not the loan has since been returned.
C3_NeverSuggestsBorrowed ==
    \A u \in AskIds, tie \in TieOrders :
        \A row \in Range(Suggestions(u, tie)) : row.isbn \notin EverBorrowed(u)

\* The membership test "needle is a case-insensitive substring of hay".
IsSubstringCI(needle, hay) ==
    \E i \in 1..(Len(hay) + 1) :
        /\ i + Len(needle) - 1 <= Len(hay)
        /\ LOWER(SubSeq(hay, i, i + Len(needle) - 1)) = LOWER(needle)

\* The score as the claim states it, over U's loan history.
StatedScore(b, u) ==
    LET hist == {r \in checkouts : r.user_id = u}
        authorHit == \E r \in hist : LOWER(r.author) = LOWER(b.author)
        topicHit == \E r \in hist :
                        /\ r.title # b.title
                        /\ \/ IsSubstringCI(r.title, b.title)
                           \/ IsSubstringCI(r.title, b.description)
    IN  (IF authorHit THEN AuthorBonus ELSE IF topicHit THEN TopicBonus ELSE 0)
        + (IF AvailableCopies(b) > 0 THEN AvailableBonus ELSE 0)
        + CheckoutCount(b.isbn)

\* C5: the score of each candidate is 30 on an author match, otherwise 15 when
\* a history title other than the candidate's own is a case-insensitive
\* substring of its title or description, otherwise 0; plus 10 when copies are
\* available; plus the checkout count.
C5_ScoreAsStated ==
    \A u \in AskIds, tie \in TieOrders :
        \A row \in Range(Suggestions(u, tie)) :
            row.score = StatedScore(BookOf(books, row.isbn), u)

\* C6: the popularity term of a title is its total historical checkout count:
\* it grows by one with every successful checkout and never drops, a return
\* included.
C6_PopularityIsHistorical ==
    \A u \in AskIds, tie \in TieOrders :
        \A row \in Range(Suggestions(u, tie)) \cup Range(Popular(tie)) :
            row.checkoutCount = HistoricalCheckouts(row.isbn)

\* C7: for a user with no loan history the personalized list is empty (mode
\* "popular"), so that the list shown is the popular one.
C7_ColdStartIsPopular ==
    \A u \in AskIds, tie \in TieOrders :
        EverBorrowed(u) = {} => Suggestions(u, tie) = << >>

Precedes(rows, a, b) ==
    \E i, j \in 1..Len(rows) : i < j /\ rows[i].isbn = a /\ rows[j].isbn = b

\* C9: U has one loan, of X by author A, since returned; Y by A and unrelated
\* Z are in the catalog with zero checkouts and equal availability: then Y
\* ranks above Z for U.
C9_ReturnedLoanKeepsAuthorBonus ==
    \A u \in AskIds :
        ( /\ {r.isbn : r \in {l \in ledger : l.user_id = u}} = {VX.isbn}
          /\ Cardinality({l \in ledger : l.user_id = u}) = 1
          /\ \A l \in ledger : l.user_id = u => l.id \in returned /\ l.author = VX.author
          /\ HasBook(books, VY.isbn) /\ HasBook(books, VZ.isbn)
          /\ BookOf(books, VY.isbn).author = VY.author
          /\ BookOf(books, VZ.isbn).author = VZ.author
          /\ HistoricalCheckouts(VY.isbn) = 0 /\ HistoricalCheckouts(VZ.isbn) = 0
          /\ AvailableCopies(BookOf(books, VY.isbn)) = AvailableCopies(BookOf(books, VZ.isbn)) )
        => \A tie \in TieOrders : Precedes(Suggestions(u, tie), VY.isbn, VZ.isbn)

\* The records upsertBookRecord receives: from search-books and from
\* checkout-book.
UpsertInputs ==
    {SearchRecord(v) : v \in Volumes}
    \cup {CheckoutRecord(v.isbn, v.title, v.author, v.coverUrl) : v \in Volumes}

\* The stored row of r's identifier is as one application of r leaves it:
\* title, author and cover are r's, and so are description and categories
\* where r carries them.
AlreadyApplied(r) ==
    /\ r.isbn # NoISBN
    /\ HasBook(books, r.isbn)
    /\ LET p == UpsertParams(r)
           b == BookOf(books, r.isbn)
       IN  /\ b.title = p.title /\ b.author = p.author /\ b.cover_url = p.cover_url
           /\ p.description # EmptyText => b.description = p.description
           /\ p.categories # EmptyText => b.categories = p.categories

\* C10 as stated: a step that applies upsertBookRecord(r) to a catalog that
\* already holds r's row as one application leaves it changes no stored field.
C10_UpsertTwiceIdentical ==
    [][\A r \in UpsertInputs :
          (AlreadyApplied(r) /\ books' = upsertBookRecord(books, r, now))
          => books' = books]_vars

\* C10 amended: such a step changes no stored field but updated_at, which
\* takes the time of the second application; no other row changes.
C10_UpsertTwiceSameButTimestamp ==
    [][\A r \in UpsertInputs :
          (AlreadyApplied(r) /\ books' = upsertBookRecord(books, r, now))
          => books' = {IF b.isbn = r.isbn THEN [b EXCEPT !.updated_at = now] ELSE b :
                          b \in books}]_vars

\* C10 witness: a title stored by a search was upserted again by a checkout
\* (the row keeps the description, the checkout carried none), the clock has
\* moved on since, and the row is as that checkout record leaves it.
C10_Witness ==
    \E b \in books : \E c \in checkouts :
        /\ c.isbn = b.isbn
        /\ b.description # EmptyText
        /\ b.updated_at < now
        /\ AlreadyApplied(CheckoutRecord(c.isbn, c.title, c.author, c.cover_url))

\* The two rank orders the shelf specification resolves ties with: by
\* position on the shelf, ascending and descending.
ShelfTies ==
    {[i \in Range(ShelfISBNs) |-> CHOOSE n \in 1..ShelfSize : ShelfISBNs[n] = i],
     [i \in Range(ShelfISBNs) |-> ShelfSize + 1 - (CHOOSE n \in 1..ShelfSize : ShelfISBNs[n] = i)]}

\* C4: each list of get-user-book-suggestions has at most 10 entries; the
\* personalized list is ordered by non-increasing score, entries of equal
\* score by most recently updated first.
C4_AtMostTenSortedByScore ==
    \A u \in AskIds, tie \in ShelfTies :
        LET s == Suggestions(u, tie)
            p == Popular(tie)
        IN  /\ Len(s) <= 10 /\ Len(p) <= 10
            /\ \A n \in 1..(Len(s) - 1) :
                  /\ s[n].score >= s[n + 1].score
                  /\ s[n].score = s[n + 1].score =>
                        BookOf(books, s[n].isbn).updated_at
                            >= BookOf(books, s[n + 1].isbn).updated_at

\* C4 witness: more than 10 candidates, so the list is cut, and the list holds
\* both a drop in score and a pair of equal score with different update times.
C4_Witness ==
    \E u \in AskIds, tie \in ShelfTies :
        LET s == Suggestions(u, tie)
        IN  /\ Cardinality(Candidates(u)) > 10
            /\ Len(s) = 10
            /\ \E n \in 1..(Len(s) - 1) : s[n].score > s[n + 1].score
            /\ \E n \in 1..(Len(s) - 1) :
                  /\ s[n].score = s[n + 1].score
                  /\ BookOf(books, s[n].isbn).updated_at
                        > BookOf(books, s[n + 1].isbn).updated_at

\* User u holds a loan of every catalog title, so the personalized list of u
\* is empty.
BorrowedEverything(u) ==
    /\ books # {}
    /\ \A b \in books : \E c \in checkouts : c.user_id = u /\ c.isbn = b.isbn

\* C8: when the personalized list is empty because the user has borrowed
\* every catalog title, opening the suggestions section shows the popular
\* list (all titles by descending checkout count, then most recently updated,
\* cut to 10).
C8_PopularShownWhenAllBorrowed ==
    [][\A u \in AskIds :
          (u \in lastRequest' /\ u \notin lastRequest /\ BorrowedEverything(u))
          => \E tie \in TieOrders : suggestionsView' = Popular(tie)]_vars

\* The stored row of an identifier after an observation that carried title,
\* author, cover, description and categories (the last two possibly empty),
\* as the merge policy states it.
MergedAsStated(isbn, title, author, cover, description, categories) ==
    LET old == BookOf(books, isbn)
        new == BookOf(books', isbn)
    IN  /\ new.title = title /\ new.author = author /\ new.cover_url = cover
        /\ new.description = IF description # EmptyText THEN description
                             ELSE old.description
        /\ new.categories = IF categories # EmptyText THEN categories
                            ELSE old.categories

\* C11: after every search or checkout observation of an identifier already
\* in the catalog, the stored title, author and cover are the observation's,
\* and the stored description and categories are the observation's where it
\* carried them and the previously stored ones where it did not.
C11_LatestObservationMerged ==
    [][/\ \A v \in Volumes :
            ( /\ v.isbn # NoISBN /\ HasBook(books, v.isbn)
              /\ checkouts' = checkouts
              /\ books' = UpsertAll(books, <<v>>, now) )
            => MergedAsStated(v.isbn, v.title, v.author, v.coverUrl,
                              v.description, v.categories)
       /\ \A c \in checkouts' \ checkouts :
            HasBook(books, c.isbn)
            => MergedAsStated(c.isbn, c.title, c.author, c.cover_url,
                              EmptyText, EmptyText)]_vars

\* Calls of upsertBookRecord without a usable identifier: no record at all, a
\* record whose identifier is missing, a record with the sentinel identifier.
NoIdentifierCalls ==
    {NoBook}
    \cup {[r EXCEPT !.isbn = NULL] : r \in UpsertInputs}
    \cup {[r EXCEPT !.isbn = NoISBN] : r \in UpsertInputs}

\* C12: upsertBookRecord called with a missing record, a missing identifier
\* or the identifier 'No ISBN' leaves the catalog exactly as it was; no row
\* of the catalog ever carries a missing identifier or the sentinel.
C12_NoIdentifierIsNoOp ==
    /\ \A r \in NoIdentifierCalls : upsertBookRecord(books, r, now) = books
    /\ ~HasBook(books, NoISBN) /\ ~HasBook(books, NULL)

\* C12 witness: a loan of a volume without identifier was recorded (its
\* checkout called upsertBookRecord with the sentinel) next to a non-empty
\* catalog.
C12_Witness ==
    /\ books # {}
    /\ \E c \in checkouts : c.isbn = NoISBN

\* C13: a loan is created with due timestamp = checkout timestamp + 7 days,
\* and no step (search, another checkout, a return, a registration or
\* deletion of a user, the clock) changes the due timestamp of a loan that
\* exists before and after it.
C13_DueDateFixedAtCreation ==
    [][/\ \A c \in checkouts' \ checkouts :
            c.checkout_date = now /\ c.due_date = c.checkout_date + 7 * 24 * 3600
       /\ \A c \in checkouts : \A d \in checkouts' :
            d.id = c.id => d.due_date = c.due_date /\ d.checkout_date = c.checkout_date]_vars

\* C13 witness: a loan made before the last clock tick is still there with
\* its due timestamp, after its title was upserted again, another loan was
\* made and returned, and a user was deleted.
C13_Witness ==
    \E c \in checkouts :
        /\ c.checkout_date < now
        /\ c.due_date = c.checkout_date + 7 * 24 * 3600
        /\ \E b \in books : b.isbn = c.isbn /\ b.updated_at > c.checkout_date
        /\ \E r \in returned : r # c.id
        /\ Cardinality(users) < nextUserId - 1

\* C14: a checkout attempted while the title's availableCopies is 0 is
\* rejected (no loan is recorded) or flagged (the caller is not told plain
\* success), and the title's reported availability is 0 afterwards.
C14_NoCheckoutAtZeroAvailability ==
    [][\A c \in checkouts' \ checkouts :
          ( /\ HasBook(books, c.isbn)
            /\ AvailableCopies(BookOf(books, c.isbn)) = 0 )
          => /\ ~CheckoutBookResult(c.id).success
             /\ AvailableCopies(BookOf(books, c.isbn))' = 0]_vars

\* C15: checkout-book neither checks nor decrements availability: as long as
\* ids remain, every known user can check out every title whatever its
\* active-loan count, so two checkouts of the last copy both succeed and the
\* active loans of a title come to exceed its copies_total.
C15_CheckoutIgnoresAvailability ==
    nextCheckoutId <= MaxCheckoutId =>
        \A u \in KnownUserIds, v \in ShelfOfThree :
            ENABLED CheckoutBook(u, v.isbn, v.title, v.author, v.coverUrl)

\* C15 witness: two users hold loans of the same one-copy title, made at the
\* same second, and its active loans exceed its copies_total.
C15_Witness ==
    \E b \in books : \E c1, c2 \in checkouts :
        /\ c1.isbn = b.isbn /\ c2.isbn = b.isbn
        /\ c1.user_id # c2.user_id
        /\ c1.checkout_date = c2.checkout_date
        /\ b.copies_total = 1
        /\ ActiveCount(b.isbn) > b.copies_total

\* C16: when the store fails during get-library-books or
\* get-user-book-suggestions, what the caller receives differs from what a
\* successful read of an empty catalog resolves with (an empty list, a pair
\* of empty lists, an empty popular list).
C16_StoreFailureDistinguishable ==
    books # {} =>
        \A tie \in TieOrders, u \in AskIds :
            /\ GetLibraryBooksResolved(tie, TRUE) # << >>
            /\ GetUserBookSuggestionsResolved(u, tie, TRUE, FALSE)
                  # [suggestions |-> << >>, popular |-> << >>]
            /\ GetUserBookSuggestionsResolved(u, tie, FALSE, TRUE).popular # << >>

\* C17: a search whose metadata lookup fails or times out resolves with the
\* empty list and changes neither the catalog nor the loans, so that every
\* title's available copies and checkout count, and every user's candidates
\* and their scores, are after it what they were before it.
C17_FailedLookupChangesNothing ==
    [][lookupFailures' # lookupFailures =>
          /\ \A outcome \in FailedLookups : SearchBooksResolved(outcome) = << >>
          /\ books' = books /\ checkouts' = checkouts
          /\ \A b \in books :
                /\ AvailableCopies(b)' = AvailableCopies(b)
                /\ CheckoutCount(b.isbn)' = CheckoutCount(b.isbn)
                /\ \A u \in AskIds : Score(b, u)' = Score(b, u)
          /\ \A u \in AskIds : Candidates(u)' = Candidates(u)]_vars

\* C17 witness: a lookup has failed with titles in the catalog and a loan on
\* record.
C17_Witness ==
    /\ lookupFailures > 0
    /\ books # {}
    /\ checkouts # {}

\* The session is an admin's: the logged-in user's record says so.
AdminSession == \E u \in currentUser : u.userType = "admin"

\* C18: a step taken while the session is a student's or nobody's changes no
\* other account's role or password, deletes no account and removes no loan.
C18_AdminOperationsNeedAdminSession ==
    [][~AdminSession =>
          /\ \A a \in users :
                /\ \E b \in users' : b.id = a.id
                /\ a.id \notin {u.id : u \in currentUser} =>
                      \A b \in users' : b.id = a.id =>
                          b.userType = a.userType /\ b.password = a.password
          /\ checkouts \subseteq checkouts']_vars

\* C19: a delete-user request for an account that is an admin is answered
\* 'Cannot delete admin users', and no step removes an account whose role is
\* admin when the step is taken, a promotion between the role lookup of
\* delete-user and its DELETE included.
C19_AdminNeverDeleted ==
    [][\A a \in users :
          a.userType = "admin" =>
              /\ DeleteUserLookupResult(a.id)
                    = [success |-> FALSE, error |-> "Cannot delete admin users"]
              /\ \E b \in users' : b.id = a.id]_vars

\* C20: returning an existing loan through the page (adminReturnBook ->
\* electronAPI.returnBook -> 'return-book') reports success, removes exactly
\* that loan, and lowers the active-loan count of its title by one.
C20_ReturnPathRemovesLoan ==
    \A c \in checkouts :
        LET payload == returnBook(c.id)
            left == checkouts \ ReturnBookHit(payload)
        IN  /\ ReturnBookResult(payload).success
            /\ ReturnBookHit(payload) = {c}
            /\ Cardinality({d \in left : d.isbn = c.isbn}) = ActiveCount(c.isbn) - 1

IdTies ==
    {[i \in 1..MaxCheckoutId |-> i], [i \in 1..MaxCheckoutId |-> MaxCheckoutId + 1 - i]}

\* Two loan rows are of the same book: the same identifier, and for volumes
\* without identifier the same title and author.
SameBook(c, d) ==
    /\ c.isbn = d.isbn
    /\ c.isbn = NoISBN => (c.title = d.title /\ c.author = d.author)

\* C22: get-user-checkouts lists, for user U, exactly one entry per distinct
\* book U holds a loan record of, namely U's most recent loan of it, and
\* every entry is a loan of U.
C22_OneEntryPerBorrowedBook ==
    \A u \in AskIds, tie \in IdTies :
        LET res == GetUserCheckouts(u, tie)
            mine == {c \in checkouts : c.user_id = u}
        IN  /\ \A row \in Range(res) : \E c \in mine : UserCheckoutRow(c) = row
            /\ \A c \in mine :
                  LET latest == CHOOSE d \in mine :
                                    /\ SameBook(d, c)
                                    /\ \A e \in mine : SameBook(e, c) => e.id <= d.id
                  IN  /\ Cardinality({n \in 1..Len(res) : SameBook(res[n], c)}) = 1
                      /\ UserCheckoutRow(latest) \in Range(res)

\* C23: return-book reports success only when its DELETE removed exactly one
\* loan row; for an id no loan row carries (never issued, or already
\* returned by an earlier call) it reports success:false, removes nothing and
\* leaves every title's availability as it was.
C23_ReturnOfMissingLoanFails ==
    \A payload \in Payloads :
        LET hit == ReturnBookHit(payload)
            left == checkouts \ hit
        IN  /\ ReturnBookResult(payload).success => Cardinality(hit) = 1
            /\ (~\E c \in checkouts : c.id = payload.value) =>
                  /\ ~ReturnBookResult(payload).success
                  /\ left = checkouts
                  /\ \A b \in books :
                        Max2(b.copies_total - Cardinality({c \in left : c.isbn = b.isbn}), 0)
                            = AvailableCopies(b)

\* C23 witness: a loan was returned by an earlier call, so its id matches no
\* row any more, while another loan and its title are on record.
C23_Witness ==
    \E id \in returned :
        /\ ~\E c \in checkouts : c.id = id
        /\ \E c \in checkouts : HasBook(books, c.isbn)

\* C24: end-reading-session on a session that is already ended or does not
\* exist answers 'Session not found or already ended' and leaves end_time,
\* duration_minutes and pages_read of every session as they were; so no
\* step changes those columns of a session that has ended.
C24_SessionEndsAtMostOnce ==
    [][/\ \A sid \in 1..(MaxSessions + 1), pg \in PagesRead :
            (~\E s \in readingSessions : s.id = sid /\ s.end_time = {}) =>
                /\ EndReadingSessionResult(readingSessions, sid)
                      = [success |-> FALSE, error |-> "Session not found or already ended"]
                /\ EndReadingSessionStore(readingSessions, sid, pg, now) = readingSessions
       /\ \A s \in readingSessions : s.end_time # {} => s \in readingSessions']_vars

\* C24 witness: a session was ended with pages 3 before the last tick of the
\* clock (a second end would now store another end_time and duration), and
\* another session is still open.
C24_Witness ==
    /\ \E s \in readingSessions :
          s.end_time # {} /\ s.pages_read = {3} /\ \A t \in s.end_time : t < now
    /\ \E s \in readingSessions : s.end_time = {}

\* The pauses of the running stopwatch: those resumed, and the one in progress.
TotalPause == timer.pausedTotal + (IF timer.isPaused THEN PauseLength ELSE 0)

\* C25: time spent paused is not counted: whenever the stopwatch writes the
\* elapsed time, it is the wall time since the stopwatch was started minus
\* the pauses, and the duration recorded when stopReadingTimer ends the
\* session is the wall time since the session's start minus the pauses.
C25_PausedTimeNotCounted ==
    [][/\ timer'.shown # timer.shown =>
             \A t0 \in timer.started : timer'.shown = {(now - t0) - TotalPause}
       /\ \A s \in readingSessions, e \in readingSessions' :
             (/\ e.id = s.id
              /\ s.end_time = {}
              /\ e.end_time # {}
              /\ s.id \in timer.activeReadingSession) =>
                 e.duration_minutes = {RoundMinutes((now - s.start_time) - TotalPause)}]_vars

\* C29: the renderer has at most one backend session it started and has not
\* ended, and at most one live stopwatch interval; every un-ended session is
\* the one stopReadingTimer will end, or one whose start is still awaited.
C29_OneSessionOneInterval ==
    /\ Cardinality({s \in readingSessions : s.end_time = {}}) <= 1
    /\ Cardinality(timer.intervals) <= 1
    /\ \A s \in readingSessions :
          s.end_time = {} => s.id \in timer.activeReadingSession \cup timer.starting

\* C26: every loan that counts against the availability of a title is listed
\* by get-all-checkouts with an empty search text, also after delete-user
\* removed the borrower.
C26_EveryCountedLoanIsListed ==
    \A tie \in IdTies :
        \A c \in checkouts :
            (\E b \in books : b.isbn = c.isbn) =>
                \E row \in Range(GetAllCheckouts(EmptyText, tie)) : row.id = c.id

\* C27: once the default admin exists, at least one account has the role
\* admin in every reachable state, whatever register-user, change-user-type
\* and delete-user calls are made.
C27_AnAdminAlwaysExists ==
    \E u \in users : u.userType = "admin"

\* C28: no operation writes copies_total: every catalog title has
\* copies_total = 1, so every availableCopies the library list reports is 0
\* or 1, and a title with at least one active loan is reported with no
\* available copy.
C28_SingleCopyCatalog ==
    \A b \in books :
        /\ b.copies_total = 1
        /\ LibraryRow(b).copiesTotal = 1
        /\ LibraryRow(b).availableCopies \in {0, 1}
        /\ ActiveCount(b.isbn) >= 1 => LibraryRow(b).availableCopies = 0

\* C28 witness: a title that was upserted again after its creation and has
\* two active loans is reported with 0 copies, next to a title without loans
\* reported with 1.
C28_Witness ==
    /\ \E b \in books :
          /\ ActiveCount(b.isbn) = 2
          /\ b.updated_at > 0
          /\ LibraryRow(b).availableCopies = 0
    /\ \E b \in books : ActiveCount(b.isbn) = 0 /\ LibraryRow(b).availableCopies = 1

====
